---- MODULE Spec2Model ----
(***************************************************************************)
(* Model of the inactivity-triggered audio mute/restore engine of          *)
(* sound-inactivity (src-tauri/src/inactivity.rs and its callers in        *)
(* src-tauri/src/lib.rs).                                                  *)
(*                                                                         *)
(* Units.  Every std::time::Duration is a number of milliseconds.  Every   *)
(* f32 volume scalar in [0.0, 1.0] is a number of hundredths (0..100), so   *)
(* VOLUME_EPSILON (0.02) is 2 and QUIET_VOLUME_LEVEL (0.0) is 0.           *)
(*                                                                         *)
(* Threads.  Calls of start_monitor() (one per element of Calls), calls of *)
(* set_inactivity_threshold() (atomic: one store), the monitor thread      *)
(* (run_monitor / monitor_loop, one step per platform call), and the       *)
(* environment (the user changing the endpoint's volume or mute).          *)
(***************************************************************************)
EXTENDS Integers, Sequences, FiniteSets

\* ---------------------------------------------------------------- bounds

\* Number of start_monitor() calls made during the run.
NumCalls == 2

\* Width of the model's u64: the 64 bits of the program scaled down so that
\* every value, also as a number of milliseconds, fits the checker's
\* integers.
U64Bits == 20

\* Width of the model's DWORD (LASTINPUTINFO.dwTime): the 32 bits of the
\* program, scaled down.
DwordBits == 4

\* ------------------------------------------------------ program constants

DEFAULT_INACTIVITY_THRESHOLD_SECS == 300
QUIET_VOLUME_LEVEL == 0
VOLUME_EPSILON == 2

\* ------------------------------------------------------------ input sets

Calls == 1 .. NumCalls

\* Durations (ms) passed to set_inactivity_threshold: zero, sub-second,
\* and one that is not a whole number of seconds.
Durations == {0, 1, 2999}

\* Values GetTickCount64 returns (ms) and values LASTINPUTINFO.dwTime holds:
\* the idle times they give lie on both sides of every threshold that can
\* be stored, and dwTime can exceed the tick count.
TickCounts == {0, 2000, 300000}
DwTimes == {0, 1000}

\* Volume scalars the endpoint starts with or the user sets, in hundredths:
\* within the epsilon of silent, and an ordinary level.  (The engine adds 0
\* and whatever it restores.)
Volumes == {2, 73}

\* Placeholder of a local that holds no value.
NoValue == 0 - 1

\* Times since boot (ms) at which idle_time is called: up to past the
\* second wrap of a DWORD tick count.
Uptimes == 0 .. (2 * 2 ^ DwordBits + 1)

\* Times (ms) that have passed since the last input: all a DWORD holds.
ElapsedTimes == 0 .. (2 ^ DwordBits - 1)

\* u64::MAX
U64_MAX == 2 ^ U64Bits - 1

\* Minutes passed to set_sound_inactivity_timeout: absent (NoValue), zero,
\* one, the largest whose seconds fit a u64 and the first whose do not.
Minutes == {NoValue, 0, 1, U64_MAX \div 60, U64_MAX \div 60 + 1}

\* ------------------------------------------------- std / platform helpers

\* u64::max
max(a, b) == IF a >= b THEN a ELSE b

\* f32::abs
abs(x) == IF x < 0 THEN -x ELSE x

\* f32::clamp(lo, hi)
clamp(x, lo, hi) == IF x < lo THEN lo ELSE IF x > hi THEN hi ELSE x

\* Duration::is_zero, Duration::as_secs, Duration::from_secs,
\* Duration::from_millis (durations are in ms).
is_zero(d) == d = 0
as_secs(d) == d \div 1000
from_secs(s) == s * 1000
from_millis(ms) == ms

\* u64::saturating_sub
saturating_sub(a, b) == IF a >= b THEN a - b ELSE 0

\* u64::wrapping_mul (a faulty variant of saturating_mul).
wrapping_mul(a, b) == (a * b) % (U64_MAX + 1)

\* u64::saturating_mul
saturating_mul(a, b) == IF a * b > U64_MAX THEN U64_MAX ELSE a * b

\* Option<u64>::unwrap_or
unwrap_or(opt, default) == IF opt = NoValue THEN default ELSE opt

\* A tick count as a DWORD holds it (LASTINPUTINFO.dwTime, line 146).
dword(ticks) == ticks % (2 ^ DwordBits)

VARIABLES
    MONITOR,                    \* OnceLock<Result<(), String>>: "uninit", "Ok", "Err"
    onceRunning,                \* the call running the OnceLock initializer, 0 if none
    INACTIVITY_THRESHOLD_SECS,  \* AtomicU64
    cpc,                        \* position of each start_monitor() call
    ret,                        \* what each start_monitor() call returned
    spawnAttempts,              \* ghost: thread-spawn attempts made
    loopsSpawned,               \* ghost: monitor threads created
    lpc,                        \* position of the monitor thread
    comInits,                   \* ghost: successful CoInitializeEx calls
    comUninits,                 \* ghost: CoUninitialize calls
    lowered,                    \* monitor_loop local
    previous_volume,            \* monitor_loop local
    previous_mute_state,        \* monitor_loop local
    threshold,                  \* tick local (ms); NoValue once it is dead
    idle,                       \* tick local (ms); NoValue once it is dead
    current,                    \* tick local: volume read by current_volume
    is_muted,                   \* tick local: flag read by GetMute
    osCurrent,                  \* ghost: GetTickCount64 result of this tick
    osLast,                     \* ghost: LASTINPUTINFO.dwTime of this tick
    tickCalls,                  \* ghost: platform calls made by this tick, in order
    tickRule,                   \* ghost: the transition rule this tick's readings satisfy
    failed,                     \* ghost: the platform call that failed, "none" if none
    tickStartLowered,           \* ghost: lowered at the start of this tick
    tickStartSnapshot,          \* ghost: the snapshot at the start of this tick
    volume,                     \* endpoint: master volume scalar
    muted,                      \* endpoint: mute flag
    pre,                        \* ghost: endpoint state when the latest lowering was
                                \* due, <<>> once anything but the engine changed it
    cycles,                     \* ghost: restorations completed: "none", "one", "more"
    lastSet,                    \* ghost: last set_inactivity_threshold call <<dur, ret>>
    lastOkDur,                  \* ghost: duration of the last successful call
    target_os,                  \* cfg(target_os): "windows" or "other"
    initLog,                    \* what init_sound_inactivity_monitor's thread did
    lastCmd,                    \* ghost: last set_sound_inactivity_timeout call
                                \* <<minutes, ret>>
    elapsed                     \* ghost: true time (ms) since the last input

callVars == <<MONITOR, onceRunning, cpc, ret, spawnAttempts, loopsSpawned>>
loopLocals == <<lowered, previous_volume, previous_mute_state>>
tickLocals == <<threshold, idle, current, is_muted, osCurrent, osLast>>
tickGhosts == <<tickCalls, tickRule, failed, tickStartLowered, tickStartSnapshot>>
endpointVars == <<volume, muted>>
cycleGhosts == <<pre, cycles>>
setVars == <<INACTIVITY_THRESHOLD_SECS, lastSet, lastOkDur>>
comVars == <<comInits, comUninits>>
appVars == <<target_os, initLog, lastCmd, elapsed>>

vars == <<callVars, lpc, comVars, loopLocals, tickLocals, tickGhosts,
          endpointVars, cycleGhosts, setVars, appVars>>

\* ------------------------------------------------------------------ Init

InitEngine ==
    /\ MONITOR = "uninit"
    /\ onceRunning = 0
    /\ INACTIVITY_THRESHOLD_SECS = DEFAULT_INACTIVITY_THRESHOLD_SECS
    /\ cpc = [c \in Calls |-> "idle"]
    /\ ret = [c \in Calls |-> "none"]
    /\ spawnAttempts = 0
    /\ loopsSpawned = 0
    /\ lpc = "none"
    /\ comInits = 0
    /\ comUninits = 0
    /\ lowered = FALSE
    /\ previous_volume = 100
    /\ previous_mute_state = FALSE
    /\ threshold = NoValue
    /\ idle = NoValue
    /\ current = NoValue
    /\ is_muted = FALSE
    /\ osCurrent = NoValue
    /\ osLast = NoValue
    /\ tickCalls = <<>>
    /\ tickRule = "none"
    /\ failed = "none"
    /\ tickStartLowered = FALSE
    /\ tickStartSnapshot = <<100, FALSE>>
    /\ volume \in Volumes
    /\ muted \in BOOLEAN
    /\ pre = <<>>
    /\ cycles = "none"
    /\ lastSet = <<NoValue, "none">>
    /\ lastOkDur = NoValue
    /\ initLog = "none"
    /\ lastCmd = <<NoValue, "none">>
    /\ elapsed = NoValue

\* The engine (inactivity.rs) exists in the Windows build only.
Init ==
    /\ InitEngine
    /\ target_os = "windows"

\* -------------------------------------------------------- start_monitor

\* start_monitor, lines 33-36: the call is entered and logs the threshold.
StartCall(c) ==
    /\ cpc[c] = "idle"
    /\ cpc' = [cpc EXCEPT ![c] = "get_or_init"]
    /\ UNCHANGED <<MONITOR, onceRunning, ret, spawnAttempts, loopsSpawned>>
    /\ UNCHANGED <<lpc, comVars, loopLocals, tickLocals, tickGhosts,
                   endpointVars, cycleGhosts, setVars, appVars>>

\* A get_or_init without the Once: every call that finds the cell empty
\* runs the initializer (a faulty variant of GetOrInit).
GetOrInitUnguarded(c) ==
    /\ cpc[c] = "get_or_init"
    /\ IF MONITOR # "uninit"
       THEN /\ ret' = [ret EXCEPT ![c] = MONITOR]
            /\ cpc' = [cpc EXCEPT ![c] = "returned"]
            /\ UNCHANGED onceRunning
       ELSE /\ onceRunning' = c
            /\ cpc' = [cpc EXCEPT ![c] = "init"]
            /\ UNCHANGED ret
    /\ UNCHANGED <<MONITOR, spawnAttempts, loopsSpawned>>
    /\ UNCHANGED <<lpc, comVars, loopLocals, tickLocals, tickGhosts,
                   endpointVars, cycleGhosts, setVars, appVars>>

\* A get_or_init that runs the initializer again when the cell holds a
\* failure (a faulty variant of GetOrInit).
GetOrInitRetrying(c) ==
    /\ cpc[c] = "get_or_init"
    /\ IF MONITOR = "Ok"
       THEN /\ ret' = [ret EXCEPT ![c] = MONITOR]
            /\ cpc' = [cpc EXCEPT ![c] = "returned"]
            /\ UNCHANGED onceRunning
       ELSE /\ onceRunning = 0
            /\ onceRunning' = c
            /\ cpc' = [cpc EXCEPT ![c] = "init"]
            /\ UNCHANGED ret
    /\ UNCHANGED <<MONITOR, spawnAttempts, loopsSpawned>>
    /\ UNCHANGED <<lpc, comVars, loopLocals, tickLocals, tickGhosts,
                   endpointVars, cycleGhosts, setVars, appVars>>

\* OnceLock::get_or_init(..).clone(), lines 37-49: a call that finds the
\* cell set returns a clone of its value; a call that finds it empty with no
\* initializer running becomes the initializer; any other call blocks until
\* the cell is set.
GetOrInit(c) ==
    /\ cpc[c] = "get_or_init"
    /\ IF MONITOR # "uninit"
       THEN /\ ret' = [ret EXCEPT ![c] = MONITOR]
            /\ cpc' = [cpc EXCEPT ![c] = "returned"]
            /\ UNCHANGED onceRunning
       ELSE /\ onceRunning = 0
            /\ onceRunning' = c
            /\ cpc' = [cpc EXCEPT ![c] = "init"]
            /\ UNCHANGED ret
    /\ UNCHANGED <<MONITOR, spawnAttempts, loopsSpawned>>
    /\ UNCHANGED <<lpc, comVars, loopLocals, tickLocals, tickGhosts,
                   endpointVars, cycleGhosts, setVars, appVars>>

\* The initializer closure, lines 38-48: thread::Builder::spawn succeeds
\* (the monitor thread exists from here on and starts at run_monitor, while
\* the cell is still empty) or fails (resource exhaustion).  The caller
\* holds the outcome until get_or_init stores it.
Spawn(c) ==
    /\ cpc[c] = "init"
    /\ \E ok \in BOOLEAN :
        /\ spawnAttempts' = spawnAttempts + 1
        /\ loopsSpawned' = IF ok THEN loopsSpawned + 1 ELSE loopsSpawned
        /\ lpc' = IF ok /\ lpc = "none" THEN "ComGuard_new" ELSE lpc
        /\ cpc' = [cpc EXCEPT ![c] = IF ok THEN "store_Ok" ELSE "store_Err"]
    /\ UNCHANGED <<MONITOR, onceRunning, ret>>
    /\ UNCHANGED <<comVars, loopLocals, tickLocals, tickGhosts,
                   endpointVars, cycleGhosts, setVars, appVars>>

\* get_or_init after the closure has returned, line 37: the outcome is
\* stored in the cell, which releases the calls that wait for it.
StoreOnce(c) ==
    /\ cpc[c] \in {"store_Ok", "store_Err"}
    /\ MONITOR' = IF cpc[c] = "store_Ok" THEN "Ok" ELSE "Err"
    /\ onceRunning' = 0
    /\ cpc' = [cpc EXCEPT ![c] = "clone"]
    /\ UNCHANGED <<ret, spawnAttempts, loopsSpawned>>
    /\ UNCHANGED <<lpc, comVars, loopLocals, tickLocals, tickGhosts,
                   endpointVars, cycleGhosts, setVars, appVars>>

\* .clone(), line 49: the initializing call returns a clone of the cell's
\* value.
CloneResult(c) ==
    /\ cpc[c] = "clone"
    /\ ret' = [ret EXCEPT ![c] = MONITOR]
    /\ cpc' = [cpc EXCEPT ![c] = "returned"]
    /\ UNCHANGED <<MONITOR, onceRunning, spawnAttempts, loopsSpawned>>
    /\ UNCHANGED <<lpc, comVars, loopLocals, tickLocals, tickGhosts,
                   endpointVars, cycleGhosts, setVars, appVars>>

\* ---------------------------------------------- set_inactivity_threshold

\* A normalisation that rounds to the nearest second instead of down (a
\* faulty variant of normalized_secs).
normalized_secs_rounding(duration) == max(as_secs(duration + 500), 1)

\* Line 57: duration.as_secs().max(1)
normalized_secs(duration) == max(as_secs(duration), 1)

\* A validation that lets every duration through (a faulty variant of
\* rejects_duration).
rejects_duration_never(duration) == FALSE

\* Line 53: if duration.is_zero()
rejects_duration(duration) == is_zero(duration)

\* set_inactivity_threshold, lines 52-65: what the function does to the
\* shared state.
set_inactivity_threshold(duration) ==
    IF rejects_duration(duration)
    THEN /\ lastSet' = <<duration, "Err">>
         /\ UNCHANGED <<INACTIVITY_THRESHOLD_SECS, lastOkDur>>
    ELSE /\ INACTIVITY_THRESHOLD_SECS' = normalized_secs(duration)
         /\ lastSet' = <<duration, "Ok">>
         /\ lastOkDur' = duration

\* A call of set_inactivity_threshold, lines 52-65.
SetInactivityThreshold(duration) ==
    /\ set_inactivity_threshold(duration)
    /\ UNCHANGED <<callVars, lpc, comVars, loopLocals, tickLocals, tickGhosts,
                   endpointVars, cycleGhosts, appVars>>

\* inactivity_threshold, lines 129-132.
inactivity_threshold == from_secs(max(INACTIVITY_THRESHOLD_SECS, 1))

\* ------------------------------------------------------------ run_monitor

\* An error handling that ignores a failed volume read and goes on to the
\* mute read (a faulty variant of on_error).
on_error_ignoring_read(call) ==
    IF call = "GetMasterVolumeLevelScalar" THEN "GetMute" ELSE "unwind"

\* An error handling that enters monitor_loop although the volume control
\* could not be activated (a faulty variant of on_error).
on_error_ignoring_activate(call) ==
    IF call = "Activate" THEN "inactivity_threshold" ELSE "unwind"

\* The `?` after a platform call made while the ComGuard is alive (lines
\* 73, 76, 79, 92, 96, 97, 103, 108, 114, 118) and the map_err of line 81:
\* the error leaves monitor_loop and run_monitor, whose locals are dropped.
on_error(call) == "unwind"

\* ComGuard::new, lines 166-176, called at line 70: CoInitializeEx fails
\* (no guard is made, run_monitor returns) or succeeds.
ComGuardNew ==
    /\ lpc = "ComGuard_new"
    /\ \E ok \in BOOLEAN :
        IF ok
        THEN /\ comInits' = comInits + 1
             /\ lpc' = "CoCreateInstance"
             /\ UNCHANGED failed
        ELSE /\ failed' = "CoInitializeEx"
             /\ lpc' = "exited"
             /\ UNCHANGED comInits
    /\ UNCHANGED <<callVars, comUninits, loopLocals, tickLocals, tickCalls,
                   tickRule, tickStartLowered, tickStartSnapshot,
                   endpointVars, cycleGhosts, setVars, appVars>>

\* One fallible setup call of run_monitor made while the guard is held: on
\* failure the `?` leaves run_monitor, which drops the guard.
SetupCall(at, next) ==
    /\ lpc = at
    /\ \E ok \in BOOLEAN :
        IF ok
        THEN /\ lpc' = next
             /\ UNCHANGED failed
        ELSE /\ failed' = at
             /\ lpc' = on_error(at)
    /\ UNCHANGED <<callVars, comVars, tickLocals, tickCalls, tickRule,
                   tickStartLowered, tickStartSnapshot, endpointVars,
                   cycleGhosts, setVars, appVars>>

\* Lines 71-73.
CoCreateInstance ==
    /\ SetupCall("CoCreateInstance", "GetDefaultAudioEndpoint")
    /\ UNCHANGED loopLocals

\* Lines 74-76.
GetDefaultAudioEndpoint ==
    /\ SetupCall("GetDefaultAudioEndpoint", "Activate")
    /\ UNCHANGED loopLocals

\* Lines 77-79 and, on success, the entry of monitor_loop, lines 85-88.
Activate ==
    /\ SetupCall("Activate", "inactivity_threshold")
    /\ IF lpc' = "inactivity_threshold"
       THEN /\ lowered' = FALSE
            /\ previous_volume' = 100
            /\ previous_mute_state' = FALSE
       ELSE UNCHANGED loopLocals

\* A return of run_monitor that forgets the guard: the thread ends without
\* CoUninitialize (a faulty variant of Unwind).
UnwindWithoutRelease ==
    /\ lpc = "unwind"
    /\ lpc' = "exited"
    /\ UNCHANGED <<callVars, comVars, loopLocals, tickLocals, tickGhosts,
                   endpointVars, cycleGhosts, setVars, appVars>>

\* Drop for ComGuard, lines 180-188, run when run_monitor returns with the
\* guard alive; the thread then ends (lines 42-44 log the error).
Unwind ==
    /\ lpc = "unwind"
    /\ comUninits' = comUninits + 1
    /\ lpc' = "exited"
    /\ UNCHANGED <<callVars, comInits, loopLocals, tickLocals, tickGhosts,
                   endpointVars, cycleGhosts, setVars, appVars>>


\* ----------------------------------------------------------- monitor_loop

\* An idle-time computation that subtracts without saturating (a faulty variant of
\* idle_ms).
idle_ms_unchecked(cur, last_input) == cur - last_input

\* idle_time, lines 145-147: current.saturating_sub(u64::from(dwTime)).
idle_ms(cur, last_input) == saturating_sub(cur, last_input)

\* A branch that never restores (a faulty variant of after_idle).
after_idle_never_restoring(idle_d, threshold_d, is_lowered) ==
    IF idle_d >= threshold_d /\ ~is_lowered THEN "current_volume" ELSE "sleep"

\* A branch that lowers again on every idle tick (a faulty variant of after_idle).
after_idle_relowering(idle_d, threshold_d, is_lowered) ==
    IF idle_d >= threshold_d
    THEN "current_volume"
    ELSE IF is_lowered THEN "restore_volume" ELSE "sleep"

\* The branch of lines 94, 95 and 113: where the tick goes once it holds the
\* threshold and the idle time.
after_idle(idle_d, threshold_d, is_lowered) ==
    IF idle_d >= threshold_d
    THEN IF ~is_lowered THEN "current_volume" ELSE "sleep"
    ELSE IF is_lowered THEN "restore_volume" ELSE "sleep"

\* The transition rule the tick's readings satisfy, as section 4.3 of the
\* specification names them (ghost, not read by the loop).
rule_of(idle_d, threshold_d, is_lowered) ==
    IF idle_d >= threshold_d /\ ~is_lowered THEN "lower"
    ELSE IF idle_d < threshold_d /\ is_lowered THEN "restore"
    ELSE "hold"

\* A threshold read that ignores the stored value (a faulty variant of
\* tick_threshold): the loop keeps the default it started with.
tick_threshold_stale == from_secs(DEFAULT_INACTIVITY_THRESHOLD_SECS)

\* Line 91: the threshold a tick works with.
tick_threshold == inactivity_threshold

\* Line 91: the tick begins and reads the threshold.
ReadThreshold ==
    /\ lpc = "inactivity_threshold"
    /\ threshold' = tick_threshold
    /\ tickCalls' = <<>>
    /\ tickRule' = "none"
    /\ tickStartLowered' = lowered
    /\ tickStartSnapshot' = <<previous_volume, previous_mute_state>>
    /\ lpc' = "idle_time"
    /\ UNCHANGED <<callVars, comVars, loopLocals, idle, current, is_muted,
                   osCurrent, osLast, failed, endpointVars, cycleGhosts, setVars, appVars>>

\* Line 92 and idle_time, lines 134-151: GetLastInputInfo fails, or the
\* idle time is computed from the two tick counts the system reports.
IdleTime ==
    /\ lpc = "idle_time"
    /\ tickCalls' = Append(tickCalls, "GetLastInputInfo")
    /\ \E ok \in BOOLEAN :
        IF ok
        THEN \E cur \in TickCounts, last_input \in DwTimes :
               /\ osCurrent' = cur
               /\ osLast' = last_input
               /\ idle' = from_millis(idle_ms(cur, last_input))
               /\ lpc' = "branch"
               /\ UNCHANGED failed
        ELSE /\ failed' = "GetLastInputInfo"
             /\ lpc' = on_error("GetLastInputInfo")
             /\ UNCHANGED <<osCurrent, osLast, idle>>
    /\ UNCHANGED <<callVars, comVars, loopLocals, threshold, current, is_muted,
                   tickRule, tickStartLowered, tickStartSnapshot, endpointVars,
                   cycleGhosts, setVars, appVars>>

\* Lines 94, 95 and 113: the tick compares the idle time with the threshold
\* and takes its branch; neither value is read again.  The ghosts record
\* the rule the readings satisfy and, when a lowering is due, the state of
\* the endpoint.
Branch ==
    /\ lpc = "branch"
    /\ lpc' = after_idle(idle, threshold, lowered)
    /\ tickRule' = rule_of(idle, threshold, lowered)
    /\ pre' = IF tickRule' = "lower" THEN <<volume, muted>> ELSE pre
    /\ threshold' = NoValue
    /\ idle' = NoValue
    /\ osCurrent' = NoValue
    /\ osLast' = NoValue
    /\ UNCHANGED <<callVars, comVars, loopLocals, current, is_muted, tickCalls,
                   failed, tickStartLowered, tickStartSnapshot, endpointVars,
                   cycles, setVars, appVars>>

\* Line 96 and current_volume, lines 153-155.
CurrentVolume ==
    /\ lpc = "current_volume"
    /\ tickCalls' = Append(tickCalls, "GetMasterVolumeLevelScalar")
    /\ \E ok \in BOOLEAN :
        IF ok
        THEN /\ current' = volume
             /\ lpc' = "GetMute"
             /\ UNCHANGED failed
        ELSE /\ failed' = "GetMasterVolumeLevelScalar"
             /\ lpc' = on_error("GetMasterVolumeLevelScalar")
             /\ UNCHANGED current
    /\ UNCHANGED <<callVars, comVars, loopLocals, threshold, idle, is_muted,
                   osCurrent, osLast, tickRule, tickStartLowered,
                   tickStartSnapshot, endpointVars, cycleGhosts, setVars, appVars>>

\* A snapshot that is taken on the first lowering only (a faulty variant of
\* snapshot_volume).
snapshot_volume_first_only(cur, old) == IF old = 100 THEN cur ELSE old

\* Line 98: previous_volume = current
snapshot_volume(cur, old) == cur

\* Lines 97-99: GetMute, then the snapshot is stored.
GetMute ==
    /\ lpc = "GetMute"
    /\ tickCalls' = Append(tickCalls, "GetMute")
    /\ \E ok \in BOOLEAN :
        IF ok
        THEN /\ is_muted' = muted
             /\ previous_volume' = snapshot_volume(current, previous_volume)
             /\ previous_mute_state' = is_muted'
             /\ lpc' = "mute"
             /\ UNCHANGED failed
        ELSE /\ failed' = "GetMute"
             /\ lpc' = on_error("GetMute")
             /\ UNCHANGED <<is_muted, previous_volume, previous_mute_state>>
    /\ UNCHANGED <<callVars, comVars, lowered, threshold, idle, current,
                   osCurrent, osLast, tickRule, tickStartLowered,
                   tickStartSnapshot, endpointVars, cycleGhosts, setVars, appVars>>

\* Lines 101-105: SetMute(true) unless the endpoint was muted.
Mute ==
    /\ lpc = "mute"
    /\ IF ~is_muted
       THEN /\ tickCalls' = Append(tickCalls, "SetMute(true)")
            /\ \E ok \in BOOLEAN :
                IF ok
                THEN /\ muted' = TRUE
                     /\ lpc' = "quiet"
                     /\ UNCHANGED failed
                ELSE /\ failed' = "SetMute(true)"
                     /\ lpc' = on_error("SetMute(true)")
                     /\ UNCHANGED muted
       ELSE /\ lpc' = "quiet"
            /\ UNCHANGED <<tickCalls, failed, muted>>
    /\ UNCHANGED <<callVars, comVars, loopLocals, tickLocals, tickRule,
                   tickStartLowered, tickStartSnapshot, volume, cycleGhosts,
                   setVars, appVars>>

\* A test that skips the volume command for every level (a faulty variant of
\* needs_quieting).
needs_quieting_never(cur) == FALSE

\* Line 107: (current - QUIET_VOLUME_LEVEL).abs() > VOLUME_EPSILON
needs_quieting(cur) == abs(cur - QUIET_VOLUME_LEVEL) > VOLUME_EPSILON

\* Lines 107-111 and set_volume, lines 157-160: the volume is set to the
\* quiet level unless it is within the epsilon of it; then lowered = true.
Quiet ==
    /\ lpc = "quiet"
    /\ IF needs_quieting(current)
       THEN /\ tickCalls' = Append(tickCalls, "SetMasterVolumeLevelScalar")
            /\ \E ok \in BOOLEAN :
                IF ok
                THEN /\ volume' = clamp(QUIET_VOLUME_LEVEL, 0, 100)
                     /\ lowered' = TRUE
                     /\ lpc' = "sleep"
                     /\ UNCHANGED failed
                ELSE /\ failed' = "SetMasterVolumeLevelScalar"
                     /\ lpc' = on_error("SetMasterVolumeLevelScalar")
                     /\ UNCHANGED <<volume, lowered>>
       ELSE /\ lowered' = TRUE
            /\ lpc' = "sleep"
            /\ UNCHANGED <<tickCalls, failed, volume>>
    /\ UNCHANGED <<callVars, comVars, previous_volume, previous_mute_state,
                   tickLocals, tickRule, tickStartLowered, tickStartSnapshot,
                   muted, cycleGhosts, setVars, appVars>>

\* A restoration to full volume instead of the snapshot (a faulty variant of
\* restored_volume).
restored_volume_full(level) == 100

\* Line 114 and set_volume, lines 157-160: the level the restoration sets.
restored_volume(level) == clamp(level, 0, 100)

\* Line 114: set_volume(previous_volume).
RestoreVolume ==
    /\ lpc = "restore_volume"
    /\ tickCalls' = Append(tickCalls, "SetMasterVolumeLevelScalar")
    /\ \E ok \in BOOLEAN :
        IF ok
        THEN /\ volume' = restored_volume(previous_volume)
             /\ lpc' = "restore_mute"
             /\ UNCHANGED failed
        ELSE /\ failed' = "SetMasterVolumeLevelScalar"
             /\ lpc' = on_error("SetMasterVolumeLevelScalar")
             /\ UNCHANGED volume
    /\ UNCHANGED <<callVars, comVars, loopLocals, tickLocals, tickRule,
                   tickStartLowered, tickStartSnapshot, muted, cycleGhosts,
                   setVars, appVars>>

\* A restoration that always unmutes (a faulty variant of restore_unmutes).
restore_unmutes_always(snapshot_mute) == TRUE

\* Line 116: if !previous_mute_state
restore_unmutes(snapshot_mute) == ~snapshot_mute

\* Lines 116-122: SetMute(false) unless the snapshot was muted; then
\* lowered = false.
RestoreMute ==
    /\ lpc = "restore_mute"
    /\ IF restore_unmutes(previous_mute_state)
       THEN /\ tickCalls' = Append(tickCalls, "SetMute(false)")
            /\ \E ok \in BOOLEAN :
                IF ok
                THEN /\ muted' = FALSE
                     /\ lowered' = FALSE
                     /\ cycles' = IF cycles = "none" THEN "one" ELSE "more"
                     /\ lpc' = "sleep"
                     /\ UNCHANGED failed
                ELSE /\ failed' = "SetMute(false)"
                     /\ lpc' = on_error("SetMute(false)")
                     /\ UNCHANGED <<muted, lowered, cycles>>
       ELSE /\ lowered' = FALSE
            /\ cycles' = IF cycles = "none" THEN "one" ELSE "more"
            /\ lpc' = "sleep"
            /\ UNCHANGED <<tickCalls, failed, muted>>
    /\ UNCHANGED <<callVars, comVars, previous_volume, previous_mute_state,
                   tickLocals, tickRule, tickStartLowered, tickStartSnapshot,
                   volume, pre, setVars, appVars>>

\* Line 125: thread::sleep(POLL_INTERVAL) returns and the iteration ends;
\* its locals go out of scope.
Sleep ==
    /\ lpc = "sleep"
    /\ lpc' = "inactivity_threshold"
    /\ current' = NoValue
    /\ is_muted' = FALSE
    /\ UNCHANGED <<callVars, comVars, loopLocals, threshold, idle, osCurrent,
                   osLast, tickGhosts, endpointVars, cycleGhosts, setVars, appVars>>

\* ------------------------------------------------------------ environment

\* The user (or another program) changes the endpoint's volume or mute.
UserChangesAudio ==
    /\ \E v \in Volumes, m \in BOOLEAN :
        /\ <<v, m>> # <<volume, muted>>
        /\ volume' = v
        /\ muted' = m
    /\ pre' = <<>>
    /\ UNCHANGED <<callVars, lpc, comVars, loopLocals, tickLocals, tickGhosts,
                   cycles, setVars, appVars>>


\* ------------------------------------------------------------------ lib.rs

\* init_sound_inactivity_monitor, lib.rs lines 12-29, called once by run()
\* (line 56): the init thread calls start_monitor (Windows; an Err it gets
\* back is printed, lines 18-22) or prints that the feature is unavailable
\* (elsewhere, lines 23-26).
InitSoundInactivityMonitor ==
    /\ initLog = "none"
    /\ IF target_os = "windows"
       THEN /\ cpc[1] = "idle"
            /\ cpc' = [cpc EXCEPT ![1] = "get_or_init"]
            /\ initLog' = "start_monitor"
       ELSE /\ initLog' = "unsupported"
            /\ UNCHANGED cpc
    /\ UNCHANGED <<MONITOR, onceRunning, ret, spawnAttempts, loopsSpawned>>
    /\ UNCHANGED <<lpc, comVars, loopLocals, tickLocals, tickGhosts,
                   endpointVars, cycleGhosts, setVars, target_os, lastCmd,
                   elapsed>>

\* A command that does nothing and reports success where the feature is
\* unavailable (a faulty variant of unsupported_result).
unsupported_result_silent == "Ok"

\* lib.rs line 48: Err("Funcionalidade disponivel apenas no Windows.")
unsupported_result == "Unsupported"

\* lib.rs line 41: Duration::from_secs(minutes.saturating_mul(60))
timeout_duration(minutes) == from_secs(saturating_mul(minutes, 60))

\* A command that answers zero minutes with the error and with a reset to
\* the default of five minutes (a faulty variant of
\* SetSoundInactivityTimeout).
SetSoundInactivityTimeoutResetting(minutes_arg) ==
    LET minutes == unwrap_or(minutes_arg, 5) IN
    /\ IF minutes = 0
       THEN /\ lastCmd' = <<minutes_arg, "Err">>
            /\ INACTIVITY_THRESHOLD_SECS' = DEFAULT_INACTIVITY_THRESHOLD_SECS
            /\ UNCHANGED <<lastSet, lastOkDur>>
       ELSE IF target_os = "windows"
       THEN /\ set_inactivity_threshold(timeout_duration(minutes))
            /\ lastCmd' = <<minutes_arg, lastSet'[2]>>
       ELSE /\ lastCmd' = <<minutes_arg, unsupported_result>>
            /\ UNCHANGED setVars
    /\ UNCHANGED <<callVars, lpc, comVars, loopLocals, tickLocals, tickGhosts,
                   endpointVars, cycleGhosts, target_os, initLog, elapsed>>

\* set_sound_inactivity_timeout, lib.rs lines 31-50.  The error for zero
\* minutes (line 36) has the text of set_inactivity_threshold's: "Err".
SetSoundInactivityTimeout(minutes_arg) ==
    LET minutes == unwrap_or(minutes_arg, 5) IN
    /\ IF minutes = 0
       THEN /\ lastCmd' = <<minutes_arg, "Err">>
            /\ UNCHANGED setVars
       ELSE IF target_os = "windows"
       THEN /\ set_inactivity_threshold(timeout_duration(minutes))
            /\ lastCmd' = <<minutes_arg, lastSet'[2]>>
       ELSE /\ lastCmd' = <<minutes_arg, unsupported_result>>
            /\ UNCHANGED setVars
    /\ UNCHANGED <<callVars, lpc, comVars, loopLocals, tickLocals, tickGhosts,
                   endpointVars, cycleGhosts, target_os, initLog, elapsed>>

\* --------------------------------------------------------- specification

Next ==
    \/ \E c \in Calls : StartCall(c)
    \/ \E c \in Calls : GetOrInit(c)
    \/ \E c \in Calls : Spawn(c)
    \/ \E c \in Calls : StoreOnce(c)
    \/ \E c \in Calls : CloneResult(c)
    \/ \E duration \in Durations : SetInactivityThreshold(duration)
    \/ ComGuardNew
    \/ CoCreateInstance
    \/ GetDefaultAudioEndpoint
    \/ Activate
    \/ Unwind
    \/ ReadThreshold
    \/ IdleTime
    \/ Branch
    \/ CurrentVolume
    \/ GetMute
    \/ Mute
    \/ Quiet
    \/ RestoreVolume
    \/ RestoreMute
    \/ Sleep
    \/ UserChangesAudio

Spec == Init /\ [][Next]_vars

\* The application: either build, the monitor started by the init thread
\* alone and the threshold set through the command alone.
InitApp ==
    /\ InitEngine
    /\ target_os \in {"windows", "other"}

NextApp ==
    \/ InitSoundInactivityMonitor
    \/ \E minutes_arg \in Minutes : SetSoundInactivityTimeout(minutes_arg)
    \/ \E c \in Calls : GetOrInit(c)
    \/ \E c \in Calls : Spawn(c)
    \/ \E c \in Calls : StoreOnce(c)
    \/ \E c \in Calls : CloneResult(c)
    \/ ComGuardNew
    \/ CoCreateInstance
    \/ GetDefaultAudioEndpoint
    \/ Activate
    \/ Unwind
    \/ ReadThreshold
    \/ IdleTime
    \/ Branch
    \/ CurrentVolume
    \/ GetMute
    \/ Mute
    \/ Quiet
    \/ RestoreVolume
    \/ RestoreMute
    \/ Sleep
    \/ UserChangesAudio

SpecApp == InitApp /\ [][NextApp]_vars

\* idle_time alone, lines 134-151, called `uptime` ms after boot and `since`
\* ms after the last input: GetTickCount64 reports the uptime and
\* GetLastInputInfo the tick count of the last input as a DWORD.
IdleTimeAt(uptime, since) ==
    /\ osCurrent' = uptime
    /\ osLast' = dword(uptime - since)
    /\ idle' = from_millis(idle_ms(osCurrent', osLast'))
    /\ elapsed' = since
    /\ UNCHANGED <<callVars, lpc, comVars, loopLocals, threshold, current,
                   is_muted, tickGhosts, endpointVars, cycleGhosts, setVars,
                   target_os, initLog, lastCmd>>

NextIdle ==
    \E uptime \in Uptimes, since \in ElapsedTimes :
        since <= uptime /\ IdleTimeAt(uptime, since)

SpecIdle == Init /\ [][NextIdle]_vars

\* The steps of the loop thread.
LoopStep ==
    \/ ComGuardNew
    \/ CoCreateInstance
    \/ GetDefaultAudioEndpoint
    \/ Activate
    \/ Unwind
    \/ ReadThreshold
    \/ IdleTime
    \/ Branch
    \/ CurrentVolume
    \/ GetMute
    \/ Mute
    \/ Quiet
    \/ RestoreVolume
    \/ RestoreMute
    \/ Sleep

\* The engine with one caller of start_monitor, and a loop thread that the
\* system keeps scheduling: no platform call blocks for ever and the sleep
\* of line 125 ends.
NextLive ==
    \/ StartCall(1)
    \/ GetOrInit(1)
    \/ Spawn(1)
    \/ StoreOnce(1)
    \/ CloneResult(1)
    \/ \E duration \in Durations : SetInactivityThreshold(duration)
    \/ LoopStep
    \/ UserChangesAudio

SpecLive == Init /\ [][NextLive]_vars /\ WF_vars(LoopStep)

\* ----------------------------------------------------------------- claims

Returned == {c \in Calls : cpc[c] = "returned"}

\* The threshold (s) the specification prescribes after the calls made so
\* far: the default, or the last accepted duration rounded down to whole
\* seconds, at least one second.
PrescribedSecs ==
    IF lastOkDur = NoValue
    THEN 300
    ELSE IF lastOkDur < 1000 THEN 1 ELSE lastOkDur \div 1000

\* The tick has ended without a failure and the loop is in its sleep.
TickDone == lpc = "sleep" /\ failed = "none"

AudioCommands == {"SetMute(true)", "SetMute(false)", "SetMasterVolumeLevelScalar"}
AudioCalls == AudioCommands \cup {"GetMute", "GetMasterVolumeLevelScalar"}

CallsMade == {tickCalls[i] : i \in 1 .. Len(tickCalls)}

\* C1: however the start_monitor() calls interleave, the thread spawn of
\* the OnceLock initializer is attempted at most once, and exactly once as
\* soon as any call has returned; at most one monitor thread is ever
\* created; every call that has returned holds the outcome of that one
\* attempt, so all of them hold the same.
C1_StartOnce ==
    /\ spawnAttempts <= 1
    /\ loopsSpawned <= 1
    /\ \A c \in Returned :
        /\ spawnAttempts = 1
        /\ ret[c] = MONITOR
        /\ ret[c] = (IF loopsSpawned = 1 THEN "Ok" ELSE "Err")
    /\ \A c, d \in Returned : ret[c] = ret[d]

\* C1 witness: every call has returned Ok and the one monitor thread is in
\* its first tick.
C1_Witness ==
    /\ Returned = Calls
    /\ \A c \in Calls : ret[c] = "Ok"
    /\ lpc = "idle_time"

\* C2: a tick that finds the state NORMAL and idle_time >= threshold and in
\* which no platform call fails ends LOWERED, its calls being those of one
\* transition (one volume read, one mute read, at most one mute and one
\* volume command), and unless something else changed the endpoint during
\* the tick the endpoint is then muted with a volume within 0.02 of 0.0,
\* whatever its volume and mute flag were before.
C2_LoweringMutesAndQuiets ==
    (TickDone /\ tickRule = "lower") =>
        /\ lowered
        /\ SubSeq(tickCalls, 1, 3) =
             <<"GetLastInputInfo", "GetMasterVolumeLevelScalar", "GetMute">>
        /\ Len(tickCalls) <= 5
        /\ \A i, j \in 4 .. Len(tickCalls) :
             tickCalls[i] = tickCalls[j] => i = j
        /\ (pre # <<>>) => (muted /\ volume >= 0 - 2 /\ volume <= 2)

\* C2 witness: a lowering tick has ended on an endpoint that was already
\* muted and within 0.02 of zero, though not at zero.
C2_Witness ==
    /\ TickDone /\ tickRule = "lower"
    /\ pre = <<2, TRUE>>
    /\ volume = 2 /\ muted

\* C3: when the endpoint was unmuted at volume v as the lowering became due
\* and nothing but the engine changed it since, the tick that takes the
\* engine from LOWERED back to NORMAL leaves the endpoint unmuted at
\* exactly v, for every v and in every cycle.
C3_RestorationFidelity ==
    (TickDone /\ tickRule = "restore" /\ pre # <<>> /\ ~pre[2]) =>
        /\ ~lowered
        /\ volume = pre[1]
        /\ ~muted

\* C3 witness: the second restoration of a run gives back a volume within
\* 0.02 of zero to an endpoint that was unmuted.
C3_Witness ==
    /\ TickDone /\ tickRule = "restore"
    /\ pre = <<2, FALSE>>
    /\ cycles = "more"
    /\ volume = 2 /\ ~muted

\* C4: when the endpoint was muted at volume v as the lowering became due
\* and nothing but the engine changed it since, the tick that takes the
\* engine back to NORMAL issues no unmute command and leaves the endpoint
\* muted at volume v.
C4_RestorationKeepsUserMute ==
    (TickDone /\ tickRule = "restore" /\ pre # <<>> /\ pre[2]) =>
        /\ ~lowered
        /\ "SetMute(false)" \notin CallsMade
        /\ muted
        /\ volume = pre[1]

\* C4 witness: a restoration has ended on an endpoint that was muted at an
\* ordinary volume before the lowering.
C4_Witness ==
    /\ TickDone /\ tickRule = "restore"
    /\ pre = <<73, TRUE>>
    /\ volume = 73 /\ muted

\* C5: every call of set_inactivity_threshold with a duration t > 0 returns
\* Ok, and from then on (until the next accepted call) inactivity_threshold()
\* is max(1 second, t rounded down to whole seconds).
C5_ThresholdNormalised ==
    /\ lastSet[1] > 0 => lastSet[2] = "Ok" /\ lastOkDur = lastSet[1]
    /\ lastOkDur # NoValue => inactivity_threshold = 1000 * PrescribedSecs

\* C5 witness: a call with 1 ms was accepted and the tick that follows
\* has read a threshold of one second.
C5_Witness ==
    /\ lastSet = <<1, "Ok">>
    /\ lpc = "idle_time"
    /\ threshold = 1000

\* C6: set_inactivity_threshold(0) returns an error and leaves the stored
\* threshold as it was; after any sequence of calls the stored threshold is
\* at least one second and is the default (300 s) or the normalised value
\* of the last accepted call.
C6_ZeroRejected ==
    /\ [](/\ INACTIVITY_THRESHOLD_SECS >= 1
          /\ INACTIVITY_THRESHOLD_SECS = PrescribedSecs
          /\ lastSet[1] = 0 => lastSet[2] = "Err")
    /\ [][(lastSet' # lastSet /\ lastSet'[1] = 0) =>
            /\ INACTIVITY_THRESHOLD_SECS' = INACTIVITY_THRESHOLD_SECS
            /\ lastOkDur' = lastOkDur]_vars

\* C6 witness: a call with zero was rejected after a call with 2999 ms had
\* been accepted, and the stored threshold is still two seconds.
C6_Witness ==
    /\ lastSet = <<0, "Err">>
    /\ lastOkDur = 2999
    /\ INACTIVITY_THRESHOLD_SECS = 2

\* C7: a tick whose readings satisfy no transition rule changes neither the
\* state nor the snapshot and makes no audio endpoint call; mute and volume
\* commands are made only by a tick that performs a transition.
C7_HoldingTicksAreSilent ==
    /\ (tickRule = "hold" /\ lpc \notin {"none", "exited", "unwind"}) =>
          /\ CallsMade \cap AudioCalls = {}
          /\ lowered = tickStartLowered
          /\ <<previous_volume, previous_mute_state>> = tickStartSnapshot
    /\ (CallsMade \cap AudioCommands # {}) => tickRule \in {"lower", "restore"}

\* C7 witness: a tick has ended that found the engine LOWERED with the idle
\* time still at or above the threshold, the endpoint muted by the engine.
C7_Witness ==
    /\ TickDone /\ tickRule = "hold"
    /\ tickStartLowered /\ lowered
    /\ pre = <<73, FALSE>> /\ muted /\ volume = 0

\* C8: the idle time is never negative: it is zero whenever the last-input
\* timestamp is greater than the current tick count, and the difference of
\* the two otherwise.
C8_IdleNeverNegative ==
    lpc = "branch" =>
        /\ idle >= 0
        /\ osLast > osCurrent => idle = 0
        /\ osLast <= osCurrent => idle = osCurrent - osLast

\* C8 witness: the system reported a last-input timestamp above the current
\* tick count and the idle time is zero.
C8_Witness ==
    /\ lpc = "branch"
    /\ osLast > osCurrent
    /\ idle = 0

\* C9: the threshold a tick reads is the whole value the latest completed
\* set_inactivity_threshold call stored (the default if there was none),
\* whether the call came before or after start_monitor; a call changes
\* nothing but the stored value, so it causes no transition and no audio
\* command, and the tick under way keeps the value it read.
C9_TickReadsLatestThreshold ==
    /\ [][(lpc = "inactivity_threshold" /\ lpc' = "idle_time") =>
            threshold' = 1000 * PrescribedSecs]_vars
    /\ [][(lastSet' # lastSet) =>
            UNCHANGED <<lpc, loopLocals, tickLocals, tickGhosts, endpointVars>>]_vars

\* C9 witness: the threshold was changed after the tick had read it: the
\* tick compares against the value it read, the next one will read the new.
C9_Witness ==
    /\ lpc = "branch"
    /\ threshold = 2000
    /\ INACTIVITY_THRESHOLD_SECS = 1
    /\ lastSet = <<1, "Ok">>

\* C10: once a platform call of a tick has failed, that call is the last
\* platform call the tick made, the lowered flag is the one the tick began
\* with, and the thread makes no further call and starts no further tick.
C10_FailureEndsLoop ==
    /\ [](failed \in {"GetLastInputInfo"} \cup AudioCalls =>
            /\ lpc \in {"unwind", "exited"}
            /\ tickCalls # <<>>
            /\ tickCalls[Len(tickCalls)] = failed
            /\ lowered = tickStartLowered)
    /\ [][(failed # "none") =>
            /\ lpc' \in {"unwind", "exited"}
            /\ UNCHANGED <<tickCalls, failed, lowered>>]_vars

\* C10 witness: the volume read of a lowering failed: no mute command was
\* made and the thread has ended.
C10_Witness ==
    /\ failed = "GetMasterVolumeLevelScalar"
    /\ lpc = "exited"
    /\ tickCalls = <<"GetLastInputInfo", "GetMasterVolumeLevelScalar">>
    /\ ~lowered

SetupCalls == {"CoInitializeEx", "CoCreateInstance", "GetDefaultAudioEndpoint",
               "Activate"}

\* C11: once the OnceLock holds an outcome it keeps it and no further spawn
\* is attempted, whatever happened to the monitor thread; a call that
\* returns after a failed spawn returns that failure; at most one monitor
\* thread is created in the lifetime of the process.
C11_NeverRetried ==
    /\ [][(MONITOR # "uninit") =>
            UNCHANGED <<MONITOR, spawnAttempts, loopsSpawned>>]_vars
    /\ [][(lpc = "exited") => lpc' = "exited"]_vars
    /\ [](MONITOR = "Err" =>
            /\ loopsSpawned = 0 /\ lpc = "none"
            /\ \A c \in Returned : ret[c] = "Err")
    /\ [](lpc = "exited" =>
            /\ loopsSpawned = 1 /\ spawnAttempts = 1
            /\ \A c \in Returned : ret[c] = "Ok")

\* C11 witness: the spawn failed, every call has returned that failure and
\* there is no monitor thread.
C11_Witness ==
    /\ Returned = Calls
    /\ \A c \in Calls : ret[c] = "Err"
    /\ spawnAttempts = 1 /\ loopsSpawned = 0 /\ lpc = "none"

\* C12 as stated: when the platform session or audio initialisation fails,
\* the outcome start_monitor() gives its callers is a failure.
C12_StartReportsSetupFailure ==
    failed \in SetupCalls =>
        /\ MONITOR = "Err"
        /\ \A c \in Returned : ret[c] = "Err"

\* C12 as amended: the session setup is made by the spawned thread, which
\* runs from the spawn on, before or after start_monitor() stores and
\* returns the spawn's outcome; when the setup fails, the thread ends
\* without ever starting a poll tick, while the outcome the OnceLock comes
\* to hold, and every caller gets, is Ok.
C12_SetupFailureEndsThreadOnly ==
    /\ [](failed \in SetupCalls =>
            /\ lpc \in {"unwind", "exited"}
            /\ tickCalls = <<>> /\ tickRule = "none" /\ threshold = NoValue
            /\ ~lowered
            /\ MONITOR # "Err"
            /\ \A c \in Returned : ret[c] = "Ok"
            /\ \A c \in Calls : cpc[c] # "store_Err")
    /\ [](lpc # "none" => loopsSpawned = 1 /\ MONITOR # "Err")
    /\ [](lpc = "ComGuard_new" => comInits = 0)
    /\ [][(failed \in SetupCalls) =>
            /\ lpc' \in {"unwind", "exited"}
            /\ MONITOR' # "Err"
            /\ UNCHANGED <<tickCalls, failed>>]_vars

\* C12 witness: no default render endpoint could be resolved; the thread
\* has ended and a caller holds Ok.
C12_Witness ==
    /\ failed = "GetDefaultAudioEndpoint"
    /\ lpc = "exited"
    /\ \E c \in Returned : ret[c] = "Ok"

\* C13 as claimed: in the build for another platform every call of the
\* command, whatever its argument, returns the "only on Windows" error.
C13_EveryCommandUnsupported ==
    (target_os = "other" /\ lastCmd[2] # "none") => lastCmd[2] = "Unsupported"

\* C13: in the build for another platform the command never succeeds and
\* stores nothing: it returns the "must be greater than zero" error for
\* zero minutes and the "only on Windows" error for every other argument,
\* an absent one included; the startup path never calls start_monitor, it
\* reports the "only on Windows" message, and nothing is ever started.
C13_UnsupportedUnlessZero ==
    target_os = "other" =>
       /\ lastCmd[2] # "none" =>
             lastCmd[2] = IF lastCmd[1] = 0 THEN "Err" ELSE "Unsupported"
       /\ initLog \in {"none", "unsupported"}
       /\ INACTIVITY_THRESHOLD_SECS = DEFAULT_INACTIVITY_THRESHOLD_SECS
       /\ lastSet[2] = "none"
       /\ MONITOR = "uninit" /\ spawnAttempts = 0 /\ lpc = "none"
       /\ \A c \in Calls : cpc[c] = "idle"

\* C13 witness: in the build for another platform the startup path has
\* reported the feature unavailable and the command, called without a value,
\* has returned the "only on Windows" error.
C13_Witness ==
    /\ target_os = "other"
    /\ initLog = "unsupported"
    /\ lastCmd = <<NoValue, "Unsupported">>

\* C14: in the Windows build a call of the command without a value stores
\* five minutes, a call with zero returns the error and leaves the stored
\* threshold as it was, and a call with minutes >= 1 succeeds and stores
\* minutes * 60 seconds, or u64::MAX seconds where the product exceeds it.
C14_MinutesToSeconds ==
    [][(lastCmd' # lastCmd /\ target_os = "windows") =>
          LET given == lastCmd'[1]
              stored == INACTIVITY_THRESHOLD_SECS'
          IN  /\ given = NoValue =>
                    lastCmd'[2] = "Ok" /\ stored = 300
              /\ given = 0 =>
                    /\ lastCmd'[2] = "Err"
                    /\ stored = INACTIVITY_THRESHOLD_SECS
              /\ given >= 1 =>
                    /\ lastCmd'[2] = "Ok"
                    /\ stored >= 60
                    /\ stored = IF given * 60 <= U64_MAX
                                THEN given * 60 ELSE U64_MAX]_vars

\* C14 witness: the command was called with the first number of minutes
\* whose seconds exceed u64::MAX and u64::MAX seconds are stored.
C14_Witness ==
    /\ target_os = "windows"
    /\ lastCmd = <<U64_MAX \div 60 + 1, "Ok">>
    /\ INACTIVITY_THRESHOLD_SECS = U64_MAX

\* C15: the COM apartment is initialised before any other platform call of
\* the thread and is still held at every such call; it is released exactly
\* once when the thread ends after a successful initialisation, whatever
\* failed, and after the release the thread makes no call; it is never
\* released when CoInitializeEx failed.
C15_ComGuardScoped ==
    /\ [](/\ comUninits <= comInits /\ comInits <= 1
          /\ (lpc \notin {"none", "ComGuard_new", "exited"}) =>
                (comInits = 1 /\ comUninits = 0)
          /\ (tickCalls # <<>> \/ failed \in SetupCalls \ {"CoInitializeEx"}) =>
                comInits = 1
          /\ (lpc = "exited" /\ failed # "CoInitializeEx") =>
                (comInits = 1 /\ comUninits = 1)
          /\ (failed = "CoInitializeEx") => (comInits = 0 /\ comUninits = 0))
    /\ [][(comUninits = 1) => UNCHANGED <<lpc, tickCalls, comVars>>]_vars

\* C15 witness: a tick failed while restoring the mute flag and the thread
\* has ended with the apartment released once.
C15_Witness ==
    /\ failed = "SetMute(false)"
    /\ lpc = "exited"
    /\ comInits = 1 /\ comUninits = 1

\* C16: a call of the command, and the call of set_inactivity_threshold it
\* makes, changes neither the engine's state (lowered, the snapshot, the
\* loop's position), nor the endpoint, nor the start guard, nor the COM
\* apartment, and makes no platform call; a call that fails leaves the
\* stored threshold as it was too.  Every platform call is a step of the
\* loop thread.
C16_SetterTouchesThresholdOnly ==
    /\ [][(lastCmd' # lastCmd \/ lastSet' # lastSet) =>
             /\ UNCHANGED <<callVars, lpc, comVars, loopLocals, endpointVars,
                            tickGhosts, tickLocals>>
             /\ lastCmd'[2] # "Ok" =>
                   UNCHANGED <<INACTIVITY_THRESHOLD_SECS, lastOkDur>>]_vars
    /\ [][(tickCalls' # tickCalls) =>
             /\ lpc' # lpc
             /\ lpc \notin {"none", "exited"}
             /\ UNCHANGED <<lastCmd, lastSet, cpc>>]_vars

\* C16 witness: while the engine is LOWERED under a threshold of one minute
\* set before, the command was called with zero and returned the error.
C16_Witness ==
    /\ target_os = "windows"
    /\ lowered
    /\ lastCmd = <<0, "Err">>
    /\ lastSet[2] = "Ok"
    /\ INACTIVITY_THRESHOLD_SECS = 60

\* C17: in a lowering the volume and the mute flag are read before any mute
\* or volume command, and the snapshot the engine holds while LOWERED is
\* what the endpoint held as that lowering became due (nothing else having
\* changed the endpoint since), in every cycle; so that is what the
\* restoration sets.
C17_SnapshotOfLatestEntry ==
    /\ (tickRule = "lower" /\ CallsMade \cap AudioCommands # {}) =>
          SubSeq(tickCalls, 1, 3) =
             <<"GetLastInputInfo", "GetMasterVolumeLevelScalar", "GetMute">>
    /\ (pre # <<>> /\ (lowered \/ lpc \in {"mute", "quiet"})) =>
          <<previous_volume, previous_mute_state>> = pre
    /\ (TickDone /\ tickRule = "restore" /\ pre # <<>>) => volume = pre[1]

\* C17 witness: the engine is LOWERED for at least the second time and the
\* snapshot is what the endpoint held as this lowering became due.
C17_Witness ==
    /\ lowered /\ lpc = "sleep"
    /\ cycles # "none"
    /\ pre = <<2, TRUE>>
    /\ <<previous_volume, previous_mute_state>> = <<2, TRUE>>

\* C18 as claimed: whenever idle_time is called `elapsed` ms after the last
\* input (elapsed less than what a DWORD holds), at whatever uptime, it
\* returns that time.
C18_IdleIsElapsed ==
    elapsed # NoValue => idle = from_millis(elapsed)

\* C19: when no platform call ever fails and from some point on every tick
\* reads an idle time below the threshold it reads, the engine is from some
\* point on NORMAL for good; it leaves LOWERED only through the restoring
\* branch, which sets the volume to the snapshot's.
C19_EventuallyRestored ==
    /\ ([](failed = "none") /\ <>[](lpc = "branch" => idle < threshold))
          => <>[](~lowered)
    /\ [][(lowered /\ ~lowered') =>
             /\ tickRule = "restore"
             /\ "SetMasterVolumeLevelScalar" \in CallsMade]_vars

\* C19 witness: the engine was LOWERED and a tick with an idle time below
\* the threshold has brought it back to NORMAL, the volume of the endpoint
\* being the snapshot's.
C19_Witness ==
    /\ TickDone /\ tickRule = "restore"
    /\ ~lowered
    /\ volume = previous_volume /\ volume = 73
    /\ cycles # "none"

====
